---- MODULE Spec2Model ----
(***************************************************************************)
(* A model of pyss.semanticscholar.SemanticScholar: the retry loop of the  *)
(* four fetch operations, __retry_and_wait, and the title resolver         *)
(* (is_match_title and the candidate scan of get_paper_id_from_title),     *)
(* and __clean with the Author and Paper records built through it.         *)
(*                                                                         *)
(* Strings are sequences of one-character strings.  Floats are exact       *)
(* rationals <<numerator, denominator>>; seconds are integers.             *)
(***************************************************************************)
EXTENDS Integers, Sequences, FiniteSets, TLC

(* ------------------------------ bounds --------------------------------- *)
MaxRetry == 3          \* largest max_retry_count tried
MaxCalls == 2          \* calls made on one instance
MaxTitleLen == 3       \* characters in a query title
MaxCands == 2          \* candidates in one search response

(* --------------------------- text helpers ------------------------------ *)
\* The alphabet: a lowercase letter, an uppercase letter, a digit, the
\* space and one character of string.punctuation.
Chars == {"a", "A", "1", " ", "!"}
Punctuation == {"!"}
Whitespace == {" "}

RECURSIVE SeqsUpTo(_, _)
SeqsUpTo(S, n) ==
  IF n = 0 THEN {<<>>}
  ELSE LET shorter == SeqsUpTo(S, n - 1)
       IN shorter \cup {Append(s, c) : s \in shorter, c \in S}

\* a string built character by character, as the tuple of its characters
Tuple(f, n) == SubSeq(f, 1, n)

\* str.lower() on one character and on a string
LowerChar(c) == IF c = "A" THEN "a" ELSE c
Lower(s) == Tuple([i \in 1..Len(s) |-> LowerChar(s[i])], Len(s))

\* for punc in string.punctuation: s = s.replace(punc, " ")
ReplacePunctuation(s) ==
  Tuple([i \in 1..Len(s) |-> IF s[i] \in Punctuation THEN " " ELSE s[i]], Len(s))

\* the k-th smallest element of a set of positions
Nth(K, k) == CHOOSE i \in K : Cardinality({j \in K : j < i}) = k - 1

\* the count argument of re.sub in both normalisations
SubCount == 1000

\* re.sub(r"\s\s+", " ", s, count=1000): scanning from the left, each
\* maximal run of two or more whitespace characters becomes one space, for
\* the first SubCount runs only; later runs and lone whitespace characters
\* stay.  cutoff is the head of the first run left alone.
CollapseWhitespace(s) ==
  LET n == Len(s)
      ws(i) == i >= 1 /\ i <= n /\ s[i] \in Whitespace
      heads == {i \in 1..n : ws(i) /\ ws(i + 1) /\ ~ws(i - 1)}
      cutoff == IF Cardinality(heads) <= SubCount THEN n + 1
                ELSE CHOOSE h \in heads :
                       Cardinality({g \in heads : g < h}) = SubCount
      marks == Tuple([i \in 1..n |->
                 [keep |-> ~(ws(i) /\ ws(i - 1) /\ i < cutoff),
                  c |-> IF ws(i) /\ ws(i + 1) /\ i < cutoff THEN " " ELSE s[i]]], n)
      kept == SelectSeq(marks, LAMBDA m : m.keep)
  IN Tuple([k \in 1..Len(kept) |-> kept[k].c], Len(kept))

\* the normalisation of is_match_title
NormalizeMatch(s) == CollapseWhitespace(ReplacePunctuation(Lower(s)))
\* the normalisation of the query in get_paper_id_from_title (no lower())
NormalizeQuery(s) == CollapseWhitespace(ReplacePunctuation(s))

(* ------------------------------ ROUGE-L -------------------------------- *)
\* RougeCalculator(stopwords=True, stemming=False, lang="en") drops the
\* English stop words from both token lists; "a" is the one in the alphabet.
StopWords == {<<"a">>}

\* words of a text: the maximal runs of non-space characters, in order
Words(s) ==
  LET starts == {i \in 1..Len(s) : s[i] \notin Whitespace /\ (i = 1 \/ s[i - 1] \in Whitespace)}
      last(i) == CHOOSE j \in i..Len(s) :
                   /\ \A m \in i..j : s[m] \notin Whitespace
                   /\ (j = Len(s) \/ s[j + 1] \in Whitespace)
  IN Tuple([k \in 1..Cardinality(starts) |-> SubSeq(s, Nth(starts, k), last(Nth(starts, k)))],
           Cardinality(starts))

Tokenize(s) == SelectSeq(Words(s), LAMBDA w : w \notin StopWords)

Max(a, b) == IF a >= b THEN a ELSE b

\* length of the longest common subsequence of x[i..] and y[j..]
RECURSIVE LcsFrom(_, _, _, _)
LcsFrom(x, y, i, j) ==
  IF i > Len(x) \/ j > Len(y) THEN 0
  ELSE IF x[i] = y[j] THEN 1 + LcsFrom(x, y, i + 1, j + 1)
       ELSE Max(LcsFrom(x, y, i + 1, j), LcsFrom(x, y, i, j + 1))

Lcs(x, y) == LcsFrom(x, y, 1, 1)

\* rouge_l(summary, references) with alpha = 0.5: the F-measure of
\* precision = lcs/|summary| and recall = lcs/|reference|, 0 when a
\* division has a zero denominator.
RougeL(summary, reference) ==
  LET s == Tokenize(summary)
      r == Tokenize(reference)
      matches == Lcs(r, s)
      pn == IF Len(s) = 0 THEN 0 ELSE matches
      pd == IF Len(s) = 0 THEN 1 ELSE Len(s)
      rn == IF Len(r) = 0 THEN 0 ELSE matches
      rd == IF Len(r) = 0 THEN 1 ELSE Len(r)
      denom == pn * rd + rn * pd      \* 2*pd*rd*((1-alpha)*precision + alpha*recall)
  IN IF denom = 0 THEN <<0, 1>> ELSE <<2 * pn * rn, denom>>

\* a > b on rationals with positive denominators
GreaterThan(a, b) == a[1] * b[2] > b[1] * a[2]

\* variant: the title is not lowercased
is_match_title_nolower(title, ref_title, thr) ==
  GreaterThan(RougeL(CollapseWhitespace(ReplacePunctuation(title)), NormalizeMatch(ref_title)), thr)

\* variant: the comparison is turned round, threshold > score
is_match_title_inverted(title, ref_title, thr) ==
  GreaterThan(thr, RougeL(NormalizeMatch(title), NormalizeMatch(ref_title)))

\* is_match_title(title, ref_title): score > self.threshold
is_match_title(title, ref_title, thr) ==
  GreaterThan(RougeL(NormalizeMatch(title), NormalizeMatch(ref_title)), thr)

(* ------------------------- get_paper_id_from_title --------------------- *)
\* str.strip() on a paper identifier: identifiers carry no whitespace here
Strip(id) == id

\* the scan "for item in content['data']" from position i on: the result is
\* the identifier returned ("" when the loop runs out) and the number of
\* candidates is_match_title was called on
\* variant: the scan does not stop at the first match, the last one wins
RECURSIVE ScanFrom_last(_, _, _, _)
ScanFrom_last(query, data, i, thr) ==
  IF i > Len(data) THEN [id |-> "", scored |-> Len(data)]
  ELSE LET ref_str == CollapseWhitespace(ReplacePunctuation(Lower(data[i].title)))
           rest == ScanFrom_last(query, data, i + 1, thr)
       IN IF is_match_title(query, ref_str, thr) /\ rest.id = ""
          THEN [id |-> Strip(data[i].paperId), scored |-> Len(data)]
          ELSE rest

\* variant: when the loop runs out the first candidate is returned anyway
RECURSIVE ScanFrom_fallback(_, _, _, _)
ScanFrom_fallback(query, data, i, thr) ==
  IF i > Len(data)
  THEN [id |-> IF Len(data) > 0 THEN Strip(data[1].paperId) ELSE "", scored |-> Len(data)]
  ELSE LET ref_str == CollapseWhitespace(ReplacePunctuation(Lower(data[i].title)))
       IN IF is_match_title(query, ref_str, thr)
          THEN [id |-> Strip(data[i].paperId), scored |-> i]
          ELSE ScanFrom_fallback(query, data, i + 1, thr)

RECURSIVE ScanFrom(_, _, _, _)
ScanFrom(query, data, i, thr) ==
  IF i > Len(data) THEN [id |-> "", scored |-> Len(data)]
  ELSE LET ref_str == CollapseWhitespace(ReplacePunctuation(Lower(data[i].title)))
       IN IF is_match_title(query, ref_str, thr)
          THEN [id |-> Strip(data[i].paperId), scored |-> i]
          ELSE ScanFrom(query, data, i + 1, thr)

Scan(query, data, thr) == ScanFrom(query, data, 1, thr)

(* ------------------------------ exceptions ----------------------------- *)
Exc(cls, errno, code) == [cls |-> cls, errno |-> errno, code |-> code]
NoError == Exc("none", 0, 0)
ExceedMaxRetryCountException == Exc("ExceedMaxRetryCountException", 0, 0)
GenericException == Exc("Exception", 0, 0)
NoPaperFoundException == Exc("NoPaperFoundException", 0, 0)
NoAuthorFoundException == Exc("NoAuthorFoundException", 0, 0)
UnboundLocalError == Exc("UnboundLocalError", 0, 0)
JSONDecodeError == Exc("JSONDecodeError", 0, 0)
KeyError == Exc("KeyError", 0, 0)
TypeError == Exc("TypeError", 0, 0)
ParserError == Exc("ParserError", 0, 0)

\* what urlopen / read can raise: an HTTPError (with or without errno -3,
\* status 429 or another status), a URLError, a socket.timeout, anything else
HTTPErrors == {Exc("HTTPError", e, c) : e \in {-3, 0}, c \in {429, 500}}
NetworkErrors ==
  HTTPErrors \cup {Exc("URLError", 0, 0), Exc("timeout", 0, 0), Exc("OtherError", 0, 0)}

IsHTTPError(ex) == ex.cls = "HTTPError"

(* ---------------------------- __retry_and_wait ------------------------- *)
LongWaitSleeps == 30    \* range(30, 0, -1)
LongWaitStep == 1       \* time.sleep(1.0)
DefaultSleep == 3       \* sleep: float = 3.0
DefaultMaxRetryCount == 5

\* __retry_and_wait either raises ex or waits and returns the counter
\* and writes output on the way: a warning to the logger, a tqdm progress bar
Raises(r) ==
  [raised |-> TRUE, retry |-> r, waits |-> <<>>, secs |-> 0, output |-> <<>>]
Waits(r, names, secs) ==
  [raised |-> FALSE, retry |-> r, waits |-> names, secs |-> secs, output |-> <<>>]
LongWait == LongWaitSleeps * LongWaitStep
\* if not self.__silent and self.__logger is not None: logger.warning(msg)
Warning(sil, lgr) == IF ~sil /\ lgr THEN <<"warning">> ELSE <<>>
\* tqdm(range(30, 0, -1), ...) if not self.__silent else range(30, 0, -1)
Bar(sil) == IF ~sil THEN <<"bar">> ELSE <<>>
Out(w, out) == [w EXCEPT !.output = out]

\* variant: the counter is not incremented on the short-delay path
retry_and_wait_nocount(ex, r, slp, max, sil, lgr) ==
  IF max < r + 1 THEN Raises(r + 1)
  ELSE IF IsHTTPError(ex) /\ ex.errno = -3 THEN
       Out(Waits(r + 1, <<"wait_errno3">>, LongWait), Warning(sil, lgr) \o Bar(sil))
  ELSE IF IsHTTPError(ex) /\ ex.code = 429 THEN
       Out(Waits(r + 1, <<"wait_429">>, LongWait), Warning(sil, lgr) \o Bar(sil))
  ELSE IF IsHTTPError(ex) THEN
       Out(Raises(r + 1), Warning(sil, lgr))
  ELSE
       Out(Waits(r, <<"wait_short">>, slp), Warning(sil, lgr))

\* variant: every HTTPError that is not errno -3 or 429 is retried
retry_and_wait_nofatal(ex, r, slp, max, sil, lgr) ==
  IF max < r + 1 THEN Raises(r + 1)
  ELSE IF IsHTTPError(ex) /\ ex.errno = -3 THEN
       Out(Waits(r + 1, <<"wait_errno3">>, LongWait), Warning(sil, lgr) \o Bar(sil))
  ELSE IF IsHTTPError(ex) /\ ex.code = 429 THEN
       Out(Waits(r + 1, <<"wait_429">>, LongWait), Warning(sil, lgr) \o Bar(sil))
  ELSE
       Out(Waits(r + 1, <<"wait_short">>, slp), Warning(sil, lgr))

\* variant: a 429 gets the short delay
retry_and_wait_429short(ex, r, slp, max, sil, lgr) ==
  IF max < r + 1 THEN Raises(r + 1)
  ELSE IF IsHTTPError(ex) /\ ex.errno = -3 THEN
       Out(Waits(r + 1, <<"wait_errno3">>, LongWait), Warning(sil, lgr) \o Bar(sil))
  ELSE IF IsHTTPError(ex) /\ ex.code = 429 THEN
       Out(Waits(r + 1, <<"wait_short">>, slp), Warning(sil, lgr))
  ELSE IF IsHTTPError(ex) THEN
       Out(Raises(r + 1), Warning(sil, lgr))
  ELSE
       Out(Waits(r + 1, <<"wait_short">>, slp), Warning(sil, lgr))

\* variant: the short delay ignores the caller's sleep argument
retry_and_wait_fixedsleep(ex, r, slp, max, sil, lgr) ==
  IF max < r + 1 THEN Raises(r + 1)
  ELSE IF IsHTTPError(ex) /\ ex.errno = -3 THEN
       Out(Waits(r + 1, <<"wait_errno3">>, LongWait), Warning(sil, lgr) \o Bar(sil))
  ELSE IF IsHTTPError(ex) /\ ex.code = 429 THEN
       Out(Waits(r + 1, <<"wait_429">>, LongWait), Warning(sil, lgr) \o Bar(sil))
  ELSE IF IsHTTPError(ex) THEN
       Out(Raises(r + 1), Warning(sil, lgr))
  ELSE
       Out(Waits(r + 1, <<"wait_short">>, DefaultSleep), Warning(sil, lgr))

\* variant: the budget test is  max_retry_count <= retry
retry_and_wait_early(ex, r, slp, max, sil, lgr) ==
  IF max <= r + 1 THEN Raises(r + 1)
  ELSE IF IsHTTPError(ex) /\ ex.errno = -3 THEN
       Out(Waits(r + 1, <<"wait_errno3">>, LongWait), Warning(sil, lgr) \o Bar(sil))
  ELSE IF IsHTTPError(ex) /\ ex.code = 429 THEN
       Out(Waits(r + 1, <<"wait_429">>, LongWait), Warning(sil, lgr) \o Bar(sil))
  ELSE IF IsHTTPError(ex) THEN
       Out(Raises(r + 1), Warning(sil, lgr))
  ELSE
       Out(Waits(r + 1, <<"wait_short">>, slp), Warning(sil, lgr))

\* variant: the long wait is the loop over the progress bar, skipped in
\* silent mode
retry_and_wait_barwait(ex, r, slp, max, sil, lgr) ==
  IF max < r + 1 THEN Raises(r + 1)
  ELSE IF IsHTTPError(ex) /\ ex.errno = -3 THEN
       Out(Waits(r + 1, IF sil THEN <<>> ELSE <<"wait_errno3">>,
                 IF sil THEN 0 ELSE LongWait), Warning(sil, lgr) \o Bar(sil))
  ELSE IF IsHTTPError(ex) /\ ex.code = 429 THEN
       Out(Waits(r + 1, IF sil THEN <<>> ELSE <<"wait_429">>,
                 IF sil THEN 0 ELSE LongWait), Warning(sil, lgr) \o Bar(sil))
  ELSE IF IsHTTPError(ex) THEN
       Out(Raises(r + 1), Warning(sil, lgr))
  ELSE
       Out(Waits(r + 1, <<"wait_short">>, slp), Warning(sil, lgr))

\* variant: the short delay is slept twice
retry_and_wait_twice(ex, r, slp, max, sil, lgr) ==
  IF max < r + 1 THEN Raises(r + 1)
  ELSE IF IsHTTPError(ex) /\ ex.errno = -3 THEN
       Out(Waits(r + 1, <<"wait_errno3">>, LongWait), Warning(sil, lgr) \o Bar(sil))
  ELSE IF IsHTTPError(ex) /\ ex.code = 429 THEN
       Out(Waits(r + 1, <<"wait_429">>, LongWait), Warning(sil, lgr) \o Bar(sil))
  ELSE IF IsHTTPError(ex) THEN
       Out(Raises(r + 1), Warning(sil, lgr))
  ELSE
       Out(Waits(r + 1, <<"wait_short", "wait_short">>, 2 * slp), Warning(sil, lgr))

\* variant: the short-delay path counts the failure twice
retry_and_wait_double(ex, r, slp, max, sil, lgr) ==
  IF max < r + 1 THEN Raises(r + 1)
  ELSE IF IsHTTPError(ex) /\ ex.errno = -3 THEN
       Out(Waits(r + 1, <<"wait_errno3">>, LongWait), Warning(sil, lgr) \o Bar(sil))
  ELSE IF IsHTTPError(ex) /\ ex.code = 429 THEN
       Out(Waits(r + 1, <<"wait_429">>, LongWait), Warning(sil, lgr) \o Bar(sil))
  ELSE IF IsHTTPError(ex) THEN
       Out(Raises(r + 1), Warning(sil, lgr))
  ELSE
       Out(Waits(r + 2, <<"wait_short">>, slp), Warning(sil, lgr))

\* __retry_and_wait(msg, ex, retry, sleep) under max_retry_count = max
retry_and_wait(ex, r, slp, max, sil, lgr) ==
  IF max < r + 1 THEN Raises(r + 1)
  ELSE IF IsHTTPError(ex) /\ ex.errno = -3 THEN
       Out(Waits(r + 1, <<"wait_errno3">>, LongWait), Warning(sil, lgr) \o Bar(sil))
  ELSE IF IsHTTPError(ex) /\ ex.code = 429 THEN
       Out(Waits(r + 1, <<"wait_429">>, LongWait), Warning(sil, lgr) \o Bar(sil))
  ELSE IF IsHTTPError(ex) THEN
       Out(Raises(r + 1), Warning(sil, lgr))
  ELSE
       Out(Waits(r + 1, <<"wait_short">>, slp), Warning(sil, lgr))

(* ------------------------------- state --------------------------------- *)
VARIABLES
  threshold,        \* self.__threshold, a rational <<n, d>>
  max_retry_count,  \* self.__max_retry_count
  silent,           \* self.__silent
  logger,           \* self.__logger is not None
  calls,            \* calls started on this instance so far
  pc,               \* "idle", "loop" (about to attempt), "returned", "raised"
  op,               \* the operation of the current call
  title,            \* get_paper_id_from_title: the title argument
  paper_id,         \* get_author_detail_by_name: the paper_id argument
  sleep,            \* the sleep argument, in seconds
  retry,            \* the local retry counter
  log,              \* attempts and waits of the current call, in order
  slept,            \* seconds slept in the current call
  output,           \* warnings and progress bars written in the current call
  error,            \* the exception that left the call, NoError if none
  result,           \* the value returned
  response,         \* the body of the response the loop was left with
  scored,           \* candidates is_match_title was called on
  ref_title         \* a candidate title followed through its normalisations

vars == <<threshold, max_retry_count, silent, logger, calls, pc, op, title,
          paper_id, sleep, retry, log, slept, output, error, result, response,
          scored, ref_title>>
config == <<threshold, max_retry_count, silent, logger>>

Ops == {"get_paper_id_from_title", "get_paper_detail",
        "get_author_detail_by_name", "get_author_detail"}

Event(ev, ex) == [ev |-> ev, ex |-> ex]
Events(names) == Tuple([i \in 1..Len(names) |-> Event(names[i], NoError)], Len(names))

\* the error raised after the loop when the budget is spent
ExhaustionError(o) ==
  IF o \in {"get_paper_id_from_title", "get_paper_detail"}
  THEN ExceedMaxRetryCountException
  ELSE GenericException

(* ------------------------- response bodies ----------------------------- *)
\* A body is [json: does it parse, has_data: is there a "data" key, data].
Body(json, has_data, data) == [json |-> json, has_data |-> has_data, data |-> data]
Malformed == Body(FALSE, FALSE, <<>>)
NoData == Body(TRUE, FALSE, <<>>)

PaperIds == <<"p1", "p2", "p3", "p4">>
Titles == SeqsUpTo(Chars, MaxTitleLen)
\* candidate titles for a query: the query's own text, "1" and "11"
CandTitles(t) == {t, <<"1">>, <<"1", "1">>}
\* the candidate lists, of the query's own text and "1": the i-th candidate
\* has the i-th identifier
CandLists(t) ==
  UNION {[1..n -> {t, <<"1">>}] : n \in 0..MaxCands}
Candidates(ts) ==
  Tuple([i \in 1..Len(ts) |-> [paperId |-> PaperIds[i], title |-> ts[i]]], Len(ts))
\* the search responses tried by the retry specification: a body that does
\* not parse, one without "data", the empty list and the lists of one
\* candidate, the query's text or "1a"
SearchBodies(t) ==
  {Malformed, NoData}
    \cup {Body(TRUE, TRUE, Candidates(ts)) :
            ts \in UNION {[1..n -> {t, <<"1", "a">>}] : n \in 0..1}}

\* author search: each author has an identifier and possibly a "papers" list
AuthorIds == <<"a1", "a2">>
AuthorItems == {[has_papers |-> FALSE, papers |-> {}]}
               \cup {[has_papers |-> TRUE, papers |-> ps] : ps \in {{"p1"}, {"p2"}}}
AuthorLists == UNION {[1..n -> AuthorItems] : n \in 0..2}
Authors(items) ==
  Tuple([i \in 1..Len(items) |-> [authorId |-> AuthorIds[i], has_papers |-> items[i].has_papers,
                                   papers |-> items[i].papers]], Len(items))
AuthorBodies ==
  {Malformed, NoData} \cup {Body(TRUE, TRUE, Authors(items)) : items \in AuthorLists}
(* ----------------------------- JSON values ----------------------------- *)
\* A value of json.loads, tagged with its Python type; the default
\* datetime(1900, 1, 1) and the dates parse_date returns are "datetime".
Val(kind, v) == [kind |-> kind, v |-> v]
None == Val("NoneType", 0)
Bool(b) == Val("bool", b)
Integer(n) == Val("int", n)
Float(n, d) == Val("float", <<n, d>>)
Str(s) == Val("str", s)
List(xs) == Val("list", xs)
Dict(f) == Val("dict", f)
Datetime(s) == Val("datetime", s)
EmptyObj == [k \in {} |-> None]
\* the object with key k bound to x, the other keys as in base
Put(base, k, x) == (k :> x) @@ base

\* bool(x)
Truthy(x) ==
  CASE x.kind = "NoneType" -> FALSE
    [] x.kind = "bool" -> x.v
    [] x.kind = "int" -> x.v # 0
    [] x.kind = "float" -> x.v[1] # 0
    [] x.kind = "str" -> x.v # ""
    [] x.kind = "list" -> Len(x.v) > 0
    [] x.kind = "dict" -> DOMAIN x.v # {}
    [] OTHER -> TRUE

\* isinstance(x, type): bool is a subclass of int
IsInstance(x, type) ==
  IF type = "int" THEN x.kind \in {"int", "bool"} ELSE x.kind = type

\* the outcome of evaluating an expression: an exception or a value
Cleaned(err, val) == [error |-> err, val |-> val]

\* dateutil.parser.parse: a date for a text that is one, ParserError for
\* another text, TypeError for an argument that is not a text
DateTexts == {"2017-06-12"}
parse_date(x) ==
  IF x.kind # "str" THEN Cleaned(TypeError, None)
  ELSE IF x.v \in DateTexts THEN Cleaned(NoError, Datetime(x.v))
  ELSE Cleaned(ParserError, None)

\* `key in dic` followed by dic[key] when dic is not a dict: a text that
\* does not contain the key and a list that does not hold it answer "no";
\* a list holding the key cannot be indexed by it and the other types
\* cannot be searched, which is a TypeError.  No text tried contains a key.
KeyIn(dic, key) ==
  CASE dic.kind = "str" -> "no"
    [] dic.kind = "list" ->
         IF \E i \in 1..Len(dic.v) : dic.v[i] = Str(key) THEN "error" ELSE "no"
    [] OTHER -> "error"

\* variant: a missing key with a default that is not a list or a dict
\* yields None
clean_nodefault(dic, key, default) ==
  IF ~IsInstance(dic, "dict") THEN
    IF KeyIn(dic, key) = "no" THEN Cleaned(NoError, default) ELSE Cleaned(TypeError, None)
  ELSE IF key \notin DOMAIN dic.v THEN
    Cleaned(NoError, IF default.kind \in {"list", "dict"} THEN default ELSE None)
  ELSE LET x == dic.v[key]
       IN IF IsInstance(default, "list") /\ IsInstance(x, "list") THEN Cleaned(NoError, x)
          ELSE IF IsInstance(default, "dict") /\ IsInstance(x, "dict") THEN Cleaned(NoError, x)
          ELSE IF IsInstance(default, "str") /\ IsInstance(x, "str") THEN Cleaned(NoError, x)
          ELSE IF Truthy(x) /\ IsInstance(default, "datetime") THEN parse_date(x)
          ELSE IF IsInstance(default, "int") /\ IsInstance(x, "int") THEN Cleaned(NoError, x)
          ELSE IF IsInstance(default, "float") /\ IsInstance(x, "float") THEN Cleaned(NoError, x)
          ELSE Cleaned(NoError, default)

\* __clean(dic, key, default)
clean(dic, key, default) ==
  IF ~IsInstance(dic, "dict") THEN
    IF KeyIn(dic, key) = "no" THEN Cleaned(NoError, default) ELSE Cleaned(TypeError, None)
  ELSE IF key \notin DOMAIN dic.v THEN Cleaned(NoError, default)
  ELSE LET x == dic.v[key]
       IN IF IsInstance(default, "list") /\ IsInstance(x, "list") THEN Cleaned(NoError, x)
          ELSE IF IsInstance(default, "dict") /\ IsInstance(x, "dict") THEN Cleaned(NoError, x)
          ELSE IF IsInstance(default, "str") /\ IsInstance(x, "str") THEN Cleaned(NoError, x)
          ELSE IF Truthy(x) /\ IsInstance(default, "datetime") THEN parse_date(x)
          ELSE IF IsInstance(default, "int") /\ IsInstance(x, "int") THEN Cleaned(NoError, x)
          ELSE IF IsInstance(default, "float") /\ IsInstance(x, "float") THEN Cleaned(NoError, x)
          ELSE Cleaned(NoError, default)

(* ------------------------- building the records ------------------------ *)
\* the first exception raised when expressions are evaluated in order
FirstError(errs) ==
  IF \A i \in 1..Len(errs) : errs[i] = NoError THEN NoError
  ELSE errs[CHOOSE i \in 1..Len(errs) :
              errs[i] # NoError /\ \A j \in 1..(i - 1) : errs[j] = NoError]
Errors(built) == Tuple([i \in 1..Len(built) |-> built[i].error], Len(built))
Values(built) == Tuple([i \in 1..Len(built) |-> built[i].val], Len(built))

DefaultDate == Datetime("1900-01-01")

\* Author(...) built from one JSON item
BuildAuthor(item) ==
  LET author_id == clean(item, "authorId", Str(""))
      author_name == clean(item, "name", Str(""))
      url == clean(item, "url", Str(""))
      affiliations == clean(item, "affiliations", List(<<>>))
      paper_count == clean(item, "paperCount", Integer(0))
      citation_count == clean(item, "citationCount", Integer(0))
      hindex == clean(item, "hIndex", Integer(0))
  IN Cleaned(FirstError(<<author_id.error, author_name.error, url.error,
                          affiliations.error, paper_count.error,
                          citation_count.error, hindex.error>>),
             [author_id |-> author_id.val, author_name |-> author_name.val,
              url |-> url.val, affiliations |-> affiliations.val,
              paper_count |-> paper_count.val,
              citation_count |-> citation_count.val, hindex |-> hindex.val])

\* [Author(...) for item in items]
BuildAuthors(items) ==
  Tuple([i \in 1..Len(items) |-> BuildAuthor(items[i])], Len(items))

\* Paper(...) built from the JSON object d, its citations and references
\* given: the fields common to the paper and to its nested entries
PaperRecord(d, citations, references) ==
  LET paper_id_ == clean(d, "paperId", Str(""))
      title_ == clean(d, "title", Str(""))
      abstract == clean(d, "abstract", Str(""))
      authors == BuildAuthors(clean(d, "authors", List(<<>>)).val.v)
      venue == clean(d, "venue", Str(""))
      url == clean(d, "url", Str(""))
      publication_date == clean(d, "publicationDate", DefaultDate)
      reference_count == clean(d, "referenceCount", Integer(0))
      citation_count == clean(d, "citationCount", Integer(0))
      influential_citation_count == clean(d, "influentialCitationCount", Integer(0))
      is_open_access == clean(d, "isOpenAccess", Bool(FALSE))
      fields_of_study == clean(d, "fieldsOfStudy", List(<<>>))
  IN Cleaned(FirstError(<<paper_id_.error, title_.error, abstract.error>>
                        \o Errors(authors)
                        \o <<venue.error, url.error, publication_date.error,
                             reference_count.error, citation_count.error,
                             influential_citation_count.error,
                             is_open_access.error, fields_of_study.error>>
                        \o citations.errors \o references.errors),
             [paper_id |-> paper_id_.val, title |-> title_.val,
              abstract |-> abstract.val, authors |-> Values(authors),
              venue |-> venue.val, url |-> url.val,
              publication_date |-> publication_date.val,
              reference_count |-> reference_count.val,
              citation_count |-> citation_count.val,
              influential_citation_count |-> influential_citation_count.val,
              is_open_access |-> is_open_access.val,
              fields_of_study |-> fields_of_study.val,
              citations |-> citations.vals, references |-> references.vals])

\* citations=[], references=[]
NoPapers == [errors |-> <<>>, vals |-> <<>>]

\* variant: a nested entry keeps the citations and references of its JSON
BuildStub_nested(item) ==
  PaperRecord(item,
              [errors |-> <<>>, vals |-> clean(item, "citations", List(<<>>)).val.v],
              [errors |-> <<>>, vals |-> clean(item, "references", List(<<>>)).val.v])

\* the Paper(...) of one entry of "citations" or "references"
BuildStub(item) == PaperRecord(item, NoPapers, NoPapers)

\* [Paper(...) for item in items]
BuildStubs(items) ==
  LET built == Tuple([i \in 1..Len(items) |-> BuildStub(items[i])], Len(items))
  IN [errors |-> Errors(built), vals |-> Values(built)]

\* the Paper(...) of get_paper_detail
BuildPaper(content) ==
  PaperRecord(content,
              BuildStubs(clean(content, "citations", List(<<>>)).val.v),
              BuildStubs(clean(content, "references", List(<<>>)).val.v))

(* --------------------- JSON objects of the detail calls ---------------- *)
\* the values tried for a key: one or two of every JSON type
SampleValues ==
  {None, Bool(TRUE), Bool(FALSE), Integer(0), Integer(7), Float(5, 2),
   Str(""), Str("x"), Str("2017-06-12"),
   List(<<>>), List(<<Str("x")>>), Dict(EmptyObj), Dict(Put(EmptyObj, "k", Str("x")))}

\* the object base without key k
Drop(base, k) == [j \in DOMAIN base \ {k} |-> base[j]]
\* the bases, and each base with one key removed or bound to a sample value
Variations(bases, keys) ==
  bases \cup {Drop(b, k) : b \in bases, k \in keys}
        \cup {Put(b, k, x) : b \in bases, k \in keys, x \in SampleValues}

\* the keys read for an author and an author with every key well typed,
\* its affiliations empty
AuthorKeys == {"authorId", "name", "url", "affiliations", "paperCount",
               "citationCount", "hIndex"}
FullAuthor ==
  ("authorId" :> Str("a1")) @@ ("name" :> Str("x")) @@ ("url" :> Str("x"))
    @@ ("affiliations" :> List(<<>>)) @@ ("paperCount" :> Integer(7))
    @@ ("citationCount" :> Integer(7)) @@ ("hIndex" :> Integer(7))
AuthorObjects == Variations({EmptyObj, FullAuthor}, AuthorKeys)

\* the keys read for a paper; an entry of a citation or reference list with
\* every key well typed that carries citations and references of its own;
\* a paper with every key well typed
PaperKeys == {"paperId", "title", "abstract", "authors", "venue", "url",
              "publicationDate", "referenceCount", "citationCount",
              "influentialCitationCount", "isOpenAccess", "fieldsOfStudy",
              "citations", "references"}
PaperWith(id, authors, citations, references) ==
  ("paperId" :> Str(id)) @@ ("title" :> Str("x")) @@ ("abstract" :> Str("x"))
    @@ ("authors" :> List(authors)) @@ ("venue" :> Str("x")) @@ ("url" :> Str("x"))
    @@ ("publicationDate" :> Str("2017-06-12")) @@ ("referenceCount" :> Integer(7))
    @@ ("citationCount" :> Integer(7)) @@ ("influentialCitationCount" :> Integer(7))
    @@ ("isOpenAccess" :> Bool(TRUE)) @@ ("fieldsOfStudy" :> List(<<Str("x")>>))
    @@ ("citations" :> List(citations)) @@ ("references" :> List(references))
Leaf == Dict(Put(EmptyObj, "paperId", Str("p3")))
FullEntry == PaperWith("p2", <<Dict(FullAuthor)>>, <<Leaf>>, <<Leaf>>)
FullPaper == PaperWith("p1", <<Dict(FullAuthor)>>, <<Dict(FullEntry)>>, <<Dict(FullEntry)>>)

\* an object whose "authors" is a list of one of the author objects
WithAuthor == {Put(EmptyObj, "authors", List(<<Dict(a)>>)) : a \in AuthorObjects}
EntryObjects == Variations({EmptyObj, FullEntry}, PaperKeys) \cup WithAuthor
PaperObjects ==
  Variations({EmptyObj, FullPaper}, PaperKeys) \cup WithAuthor
    \cup {Put(EmptyObj, k, List(<<Dict(e)>>)) :
            k \in {"citations", "references"}, e \in EntryObjects}

\* the body of a detail response whose JSON is the object content
DetailBody(content) == Body(TRUE, FALSE, <<Dict(content)>>)
Content(body) == body.data[1]

\* the detail responses tried by the retry specification
DetailBodies(o) ==
  IF o = "get_paper_detail"
  THEN {Malformed, DetailBody(FullPaper)}
  ELSE {Malformed, DetailBody(FullAuthor)}

Bodies(o, t) ==
  CASE o = "get_paper_id_from_title" -> SearchBodies(t)
    [] o = "get_author_detail_by_name" -> AuthorBodies
    [] OTHER -> DetailBodies(o)

(* --------------------- the code after the retry loop ------------------- *)
Outcome(err, res, n) == [error |-> err, result |-> res, scored |-> n]

\* get_author_detail_by_name, from "data" not in content to the return
SelectAuthor(data, pid) ==
  IF pid # "" /\ Len(data) > 0
  THEN IF \E i \in 1..Len(data) : ~data[i].has_papers
       THEN Outcome(KeyError, "", 0)
       ELSE LET hits == {i \in 1..Len(data) : pid \in data[i].papers}
            IN IF hits = {} THEN Outcome(NoAuthorFoundException, "", 0)
               ELSE Outcome(NoError, data[CHOOSE i \in hits : \A j \in hits : j <= i].authorId, 0)
  ELSE IF Len(data) > 0
  THEN Outcome(NoError, data[1].authorId, 0)
  ELSE Outcome(NoAuthorFoundException, "", 0)

\* get_paper_id_from_title, from "data" not in content to the return
\* variant: a response without "data" is treated as an empty candidate list
AfterSearch_nodata(body, t, thr) ==
  IF ~body.has_data THEN Outcome(NoError, "", 0)
  ELSE LET query == NormalizeQuery(t)
           s == Scan(query, body.data, thr)
       IN Outcome(NoError, s.id, s.scored)

AfterSearch(body, t, thr) ==
  IF ~body.has_data THEN Outcome(NoPaperFoundException, "", 0)
  ELSE LET query == NormalizeQuery(t)
           s == Scan(query, body.data, thr)
       IN Outcome(NoError, s.id, s.scored)

\* the record returned, or the exception raised while it was built
Returned(built) ==
  IF built.error # NoError THEN Outcome(built.error, "", 0)
  ELSE Outcome(NoError, built.val, 0)

\* what each operation does with the response once the loop is left by break
AfterLoop(o, body, t, pid, thr) ==
  CASE o = "get_paper_id_from_title" -> AfterSearch(body, t, thr)
    [] o = "get_paper_detail" ->
         IF ~body.json THEN Outcome(JSONDecodeError, "", 0)
         ELSE Returned(BuildPaper(Content(body)))
    [] o = "get_author_detail_by_name" ->
         IF ~body.json THEN Outcome(JSONDecodeError, "", 0)
         ELSE IF ~body.has_data THEN Outcome(NoAuthorFoundException, "", 0)
         ELSE SelectAuthor(body.data, pid)
    [] o = "get_author_detail" ->
         IF ~body.json THEN Outcome(JSONDecodeError, "", 0)
         ELSE Returned(BuildAuthor(Content(body)))

(* ------------------------------ actions -------------------------------- *)
Thresholds == {<<60, 100>>, <<95, 100>>, <<100, 100>>}
DefaultThreshold == <<95, 100>>
SleepValues == {1, DefaultSleep}

\* no call made yet
Fresh ==
  /\ calls = 0
  /\ pc = "idle"
  /\ op = "get_paper_detail"
  /\ title = <<>>
  /\ paper_id = ""
  /\ sleep = DefaultSleep
  /\ retry = 0
  /\ log = <<>>
  /\ slept = 0
  /\ output = <<>>
  /\ error = NoError
  /\ result = ""
  /\ response = Malformed
  /\ scored = 0
  /\ ref_title = <<>>

\* SemanticScholar(max_retry_count=n), the threshold left at its default
Init ==
  /\ threshold = DefaultThreshold
  /\ max_retry_count \in 0..MaxRetry
  /\ silent = FALSE
  /\ logger = FALSE
  /\ Fresh

\* variant: the retry counter is an attribute that outlives the call
Call_keepretry(o, t, pid, s) ==
  /\ pc \in {"idle", "returned", "raised"}
  /\ calls < MaxCalls
  /\ calls' = calls + 1
  /\ op' = o
  /\ title' = t
  /\ paper_id' = pid
  /\ sleep' = s
  /\ retry' = retry
  /\ log' = <<>>
  /\ slept' = 0
  /\ output' = <<>>
  /\ result' = ""
  /\ response' = Malformed
  /\ scored' = 0
  /\ IF retry < max_retry_count
     THEN pc' = "loop" /\ error' = NoError
     ELSE pc' = "raised" /\ error' = UnboundLocalError
  /\ UNCHANGED <<config, ref_title>>

\* A call of operation o: retry = 0 and the first test of the while loop.
\* With no budget the loop body never runs and the code after the loop reads
\* a local (content / response) that was never bound.
Call(o, t, pid, s) ==
  /\ pc \in {"idle", "returned", "raised"}
  /\ calls < MaxCalls
  /\ calls' = calls + 1
  /\ op' = o
  /\ title' = t
  /\ paper_id' = pid
  /\ sleep' = s
  /\ retry' = 0
  /\ log' = <<>>
  /\ slept' = 0
  /\ output' = <<>>
  /\ result' = ""
  /\ response' = Malformed
  /\ scored' = 0
  /\ IF 0 < max_retry_count
     THEN pc' = "loop" /\ error' = NoError
     ELSE pc' = "raised" /\ error' = UnboundLocalError
  /\ UNCHANGED <<config, ref_title>>

\* The except clauses of the loop body and the test that follows them: the
\* attempt raised ex.
Failed(ex) ==
  LET rw == retry_and_wait(ex, retry, sleep, max_retry_count, silent, logger)
  IN /\ log' = log \o <<Event("attempt", ex)>> \o Events(rw.waits)
     /\ slept' = slept + rw.secs
     /\ output' = output \o rw.output
     /\ retry' = rw.retry
     /\ IF rw.raised
        THEN pc' = "raised" /\ error' = ex
        ELSE IF max_retry_count <= rw.retry
        THEN pc' = "raised" /\ error' = ExhaustionError(op)
        ELSE pc' = "loop" /\ error' = NoError
     /\ UNCHANGED <<result, response, scored>>

\* urlopen raises ex
Fail(ex) ==
  /\ pc = "loop"
  /\ Failed(ex)
  /\ UNCHANGED <<config, calls, op, title, paper_id, sleep, ref_title>>

\* variant: the call goes on without time.sleep(sleep)
Respond_nopause(body) ==
  /\ pc = "loop"
  /\ IF op = "get_paper_id_from_title" /\ ~body.json
     THEN Failed(JSONDecodeError)
     ELSE LET out == AfterLoop(op, body, title, paper_id, threshold)
          IN /\ log' = log \o <<Event("attempt", NoError)>>
             /\ slept' = slept
             /\ output' = output
             /\ retry' = retry
             /\ error' = out.error
             /\ result' = out.result
             /\ response' = body
             /\ scored' = out.scored
             /\ pc' = IF out.error = NoError THEN "returned" ELSE "raised"
  /\ UNCHANGED <<config, calls, op, title, paper_id, sleep, ref_title>>

\* urlopen returns a response with the given body.  The title search parses
\* the body inside the try block, before the pause; the other operations
\* pause, leave the loop and parse afterwards.
Respond(body) ==
  /\ pc = "loop"
  /\ IF op = "get_paper_id_from_title" /\ ~body.json
     THEN Failed(JSONDecodeError)
     ELSE LET out == AfterLoop(op, body, title, paper_id, threshold)
          IN /\ log' = log \o <<Event("attempt", NoError), Event("pause", NoError)>>
             /\ slept' = slept + sleep
             /\ output' = output
             /\ retry' = retry
             /\ error' = out.error
             /\ result' = out.result
             /\ response' = body
             /\ scored' = out.scored
             /\ pc' = IF out.error = NoError THEN "returned" ELSE "raised"
  /\ UNCHANGED <<config, calls, op, title, paper_id, sleep, ref_title>>

\* the arguments tried by the retry specification
SpecTitles == {<<"1">>, <<"A">>}
FilterIds == {"", "p1"}

Next ==
  \/ \E o \in Ops, t \in SpecTitles, pid \in FilterIds, s \in SleepValues :
       /\ (o # "get_paper_id_from_title" => t = <<"1">>)
       /\ (o # "get_author_detail_by_name" => pid = "")
       /\ Call(o, t, pid, s)
  \/ \E ex \in NetworkErrors : Fail(ex)
  \/ /\ pc = "loop"
     /\ \E body \in Bodies(op, title) : Respond(body)

Spec == Init /\ [][Next]_vars

\* The resolver on its own: an instance with the default budget, any title
\* up to MaxTitleLen and a search that succeeds at the first attempt.
InitResolve ==
  /\ threshold \in Thresholds
  /\ max_retry_count = DefaultMaxRetryCount
  /\ silent = FALSE
  /\ logger = FALSE
  /\ Fresh

NextResolve ==
  \/ /\ pc = "idle"
     /\ \E t \in Titles : Call("get_paper_id_from_title", t, "", DefaultSleep)
  \/ /\ pc = "loop"
     /\ \E ts \in CandLists(title) : Respond(Body(TRUE, TRUE, Candidates(ts)))

SpecResolve == InitResolve /\ [][NextResolve]_vars

\* is_match_title on its own: an instance with any threshold of the grid
\* (0, 1/2 and the three values of Thresholds) compares a title of up to
\* MaxTitleLen characters with a candidate.
ThresholdGrid == {<<0, 1>>, <<1, 2>>} \cup Thresholds

InitMatch ==
  /\ threshold \in ThresholdGrid
  /\ max_retry_count = DefaultMaxRetryCount
  /\ silent = FALSE
  /\ logger = FALSE
  /\ Fresh

Match(t, ref) ==
  /\ pc = "idle"
  /\ op' = "is_match_title"
  /\ title' = t
  /\ ref_title' = <<ref>>
  /\ result' = is_match_title(t, ref, threshold)
  /\ pc' = "returned"
  /\ UNCHANGED <<config, calls, paper_id, sleep, retry, log, slept, output,
                 error, response, scored>>

NextMatch == \E t \in Titles : \E ref \in CandTitles(t) : Match(t, ref)

SpecMatch == InitMatch /\ [][NextMatch]_vars

\* The two detail calls on their own: an instance with the default budget
\* and a response at the first attempt whose JSON is any of the objects.
InitRecord ==
  /\ threshold = DefaultThreshold
  /\ max_retry_count = DefaultMaxRetryCount
  /\ silent = FALSE
  /\ logger = FALSE
  /\ Fresh

RecordObjects(o) == IF o = "get_paper_detail" THEN PaperObjects ELSE AuthorObjects

NextRecord ==
  \/ /\ pc = "idle"
     /\ \E o \in {"get_paper_detail", "get_author_detail"} :
          Call(o, <<"1">>, "", DefaultSleep)
  \/ /\ pc = "loop"
     /\ \E content \in RecordObjects(op) : Respond(DetailBody(content))

SpecRecord == InitRecord /\ [][NextRecord]_vars

\* The normalisation of a candidate title on its own.  A title is
\* normalised once by the loop of get_paper_id_from_title and the outcome
\* once more by is_match_title; ref_title holds the title and its two
\* successive forms.  The titles are those of up to MaxTitleLen characters
\* and one long title of LongRuns words, each followed by two spaces.
LongRuns == SubCount + 1
LongTitle == Tuple([i \in 1..(3 * LongRuns) |-> IF i % 3 = 1 THEN "1" ELSE " "],
                   3 * LongRuns)
ItemTitles == Titles \cup {LongTitle}

\* ref_str of get_paper_id_from_title: lower, punctuation, whitespace
RefStr(t) == CollapseWhitespace(ReplacePunctuation(Lower(t)))

InitNormalize ==
  /\ threshold = DefaultThreshold
  /\ max_retry_count = DefaultMaxRetryCount
  /\ silent = FALSE
  /\ logger = FALSE
  /\ Fresh

\* the loop body of get_paper_id_from_title up to the call of is_match_title
NormalizeItem(t) ==
  /\ ref_title = <<>>
  /\ ref_title' = <<t, RefStr(t)>>
  /\ UNCHANGED <<config, calls, pc, op, title, paper_id, sleep, retry, log,
                 slept, output, error, result, response, scored>>

\* is_match_title normalising the ref_title it was passed
MatchNormalize ==
  /\ Len(ref_title) = 2
  /\ ref_title' = Append(ref_title, NormalizeMatch(ref_title[2]))
  /\ UNCHANGED <<config, calls, pc, op, title, paper_id, sleep, retry, log,
                 slept, output, error, result, response, scored>>

NextNormalize ==
  \/ \E t \in ItemTitles : NormalizeItem(t)
  \/ MatchNormalize

SpecNormalize == InitNormalize /\ [][NextNormalize]_vars

\* The retry loop under every setting of the output switches: an instance
\* with any budget, silent or not, with or without a logger, called for one
\* operation of each of the two loop shapes.
LogOps == {"get_paper_id_from_title", "get_author_detail"}

InitLog ==
  /\ threshold = DefaultThreshold
  /\ max_retry_count \in 0..MaxRetry
  /\ silent \in BOOLEAN
  /\ logger \in BOOLEAN
  /\ Fresh

NextLog ==
  \/ \E o \in LogOps, s \in SleepValues : Call(o, <<"1">>, "", s)
  \/ \E ex \in NetworkErrors : Fail(ex)
  \/ /\ pc = "loop"
     /\ \E body \in Bodies(op, title) : Respond(body)

SpecLog == InitLog /\ [][NextLog]_vars

\* The retry loop of a running program: urlopen is called with
\* timeout=api_timeout and time.sleep returns, so an attempt that is due
\* comes to an outcome, a response or an exception.
Attempt ==
  \/ \E ex \in NetworkErrors : Fail(ex)
  \/ /\ pc = "loop"
     /\ \E body \in Bodies(op, title) : Respond(body)

SpecLive == Init /\ [][NextLog]_vars /\ WF_vars(Attempt)

(* ------------------------- reading the log ----------------------------- *)
AttemptIdx == {i \in 1..Len(log) : log[i].ev = "attempt"}
FailedIdx == {i \in AttemptIdx : log[i].ex # NoError}
WaitIdx(names) == {i \in 1..Len(log) : log[i].ev \in names}
LongWaits == {"wait_429", "wait_errno3"}
BackoffWaits == LongWaits \cup {"wait_short"}

Terminal == pc \in {"returned", "raised"}
Succeeded == Len(log) >= 2 /\ log[Len(log)] = Event("pause", NoError)
                           /\ log[Len(log) - 1] = Event("attempt", NoError)
ExhaustionErrors == {ExceedMaxRetryCountException, GenericException}

\* the classes of failure of section 4.1
IsRateLimit(ex) == IsHTTPError(ex) /\ ex.code = 429
IsErrno3(ex) == IsHTTPError(ex) /\ ex.errno = -3
IsFatal(ex) == IsHTTPError(ex) /\ ~IsRateLimit(ex) /\ ~IsErrno3(ex)
IsRetryable(ex) == ex # NoError /\ ~IsFatal(ex)

(* ------------------------------- claims -------------------------------- *)
\* C1: the retry budget is respected.  No call makes more than
\* max_retry_count attempts, and a call all of whose attempts failed with a
\* retryable failure ends after exactly max_retry_count attempts with an
\* exhaustion error.
C1_RetryBudget ==
  /\ Cardinality(AttemptIdx) <= max_retry_count
  /\ (Terminal /\ AttemptIdx # {} /\ \A i \in AttemptIdx : IsRetryable(log[i].ex))
       => /\ Cardinality(AttemptIdx) = max_retry_count
          /\ pc = "raised"
          /\ error \in ExhaustionErrors
  /\ (pc = "loop" /\ \A i \in AttemptIdx : IsRetryable(log[i].ex))
       => Cardinality(AttemptIdx) < max_retry_count

C1_Witness ==
  /\ pc = "raised" /\ error \in ExhaustionErrors
  /\ max_retry_count >= 2
  /\ Cardinality(AttemptIdx) = max_retry_count
  /\ \A i \in AttemptIdx : IsRetryable(log[i].ex)

\* C2: an HTTP error that is neither a 429 nor the errno -3 case ends the
\* call at once: it is the last entry of the log (no wait, no further
\* attempt) and the error that leaves the call is that very exception.
C2_FatalPropagates ==
  \A i \in FailedIdx :
    IsFatal(log[i].ex) => /\ i = Len(log)
                          /\ pc = "raised"
                          /\ error = log[i].ex

C2_Witness ==
  /\ pc = "raised" /\ IsFatal(error)
  /\ Cardinality(FailedIdx) >= 2
  /\ slept > 0

\* C3 as stated: every 429 failure is followed by one long wait and then
\* by another attempt (a wait that ends the log belongs to a call that is
\* about to attempt again); two 429s and a success give two long waits.
C3_Original ==
  /\ \A i \in FailedIdx :
       IsRateLimit(log[i].ex) =>
         /\ i + 1 <= Len(log) /\ log[i + 1].ev \in LongWaits
         /\ (i + 2 <= Len(log) => log[i + 2].ev = "attempt")
         /\ (i + 1 = Len(log) => pc = "loop")
  /\ (Succeeded /\ Cardinality(FailedIdx) = 2 /\ \A i \in FailedIdx : IsRateLimit(log[i].ex))
       => Cardinality(WaitIdx(LongWaits)) = 2 /\ WaitIdx({"wait_short"}) = {}

\* C3, amended: every 429 failure is followed by one long wait of 30
\* one-second sleeps, never by the short delay, and then by another attempt
\* unless that failure was the max_retry_count-th of the call, in which case
\* the exhaustion error is raised after the wait; two 429s and a success
\* give a successful call with exactly two long waits.
C3_RateLimitWait ==
  /\ \A i \in FailedIdx :
       IsRateLimit(log[i].ex) =>
         /\ i + 1 <= Len(log) /\ log[i + 1].ev \in LongWaits
         /\ (i + 2 <= Len(log) => log[i + 2].ev = "attempt")
         /\ (i + 1 = Len(log) =>
               \/ pc = "loop" /\ retry < max_retry_count
               \/ /\ pc = "raised" /\ error \in ExhaustionErrors
                  /\ Cardinality(FailedIdx) = max_retry_count)
  /\ (\A i \in FailedIdx : IsRateLimit(log[i].ex))
       => slept = Cardinality(FailedIdx) * LongWaitSleeps * LongWaitStep
                  + (IF Succeeded THEN sleep ELSE 0)
  /\ (Succeeded /\ Cardinality(FailedIdx) = 2 /\ \A i \in FailedIdx : IsRateLimit(log[i].ex))
       => /\ Cardinality(WaitIdx(LongWaits)) = 2 /\ WaitIdx({"wait_short"}) = {}
          /\ Terminal /\ error \notin ExhaustionErrors \cup NetworkErrors

C3_Witness ==
  /\ pc = "returned" /\ Succeeded /\ Len(log) = 6
  /\ \A i \in {1, 3} : log[i].ev = "attempt" /\ IsRateLimit(log[i].ex)
  /\ \A i \in {2, 4} : log[i].ev \in LongWaits

\* C4: a failure that is not an HTTPError (timeout, URLError, any other
\* exception) is followed by exactly one wait of the caller's sleep seconds
\* and then by another attempt if budget remains; every second slept is
\* accounted for by the long waits, the short waits and the final pause.
C4_TransientShortWait ==
  /\ \A i \in FailedIdx :
       ~IsHTTPError(log[i].ex) =>
         /\ i + 1 <= Len(log) /\ log[i + 1].ev = "wait_short"
         /\ (i + 2 <= Len(log) => log[i + 2].ev = "attempt")
         /\ (i + 1 = Len(log) /\ retry < max_retry_count => pc = "loop")
  /\ slept = Cardinality(WaitIdx(LongWaits)) * LongWaitSleeps * LongWaitStep
             + Cardinality(WaitIdx({"wait_short", "pause"})) * sleep

C4_Witness ==
  /\ Len(log) >= 3 /\ sleep # DefaultSleep
  /\ log[1] = Event("attempt", Exc("timeout", 0, 0))
  /\ log[2].ev = "wait_short" /\ log[3].ev = "attempt"

\* C5: transient failures are absorbed.  A call that succeeds after k >= 1
\* retryable failures ends exactly as the code after the loop ends for that
\* response, as a first-attempt success does; a retryable failure never
\* reaches the caller, and exhaustion is reported only once
\* max_retry_count attempts have failed.
C5_TransientAbsorbed ==
  /\ Succeeded =>
       /\ Terminal
       /\ [error |-> error, result |-> result, scored |-> scored]
            = AfterLoop(op, response, title, paper_id, threshold)
  /\ ~(pc = "raised" /\ IsRetryable(error) /\ error \in NetworkErrors \cup {JSONDecodeError}
         /\ ~Succeeded)
  /\ (pc = "raised" /\ error \in ExhaustionErrors /\ ~Succeeded)
       => Cardinality(FailedIdx) = max_retry_count

C5_Witness ==
  /\ pc = "returned" /\ Succeeded
  /\ Cardinality(FailedIdx) = 2 /\ max_retry_count = 3
  /\ \E i \in FailedIdx : log[i].ex.cls = "URLError"
  /\ \E i \in FailedIdx : IsRateLimit(log[i].ex)

\* C6 as stated: when the budget is spent without a successful response the
\* operation raises ExceedMaxRetryCountException.
C6_Original ==
  (pc = "raised" /\ ~Succeeded /\ max_retry_count >= 1
     /\ Cardinality(FailedIdx) = max_retry_count
     /\ \A i \in FailedIdx : IsRetryable(log[i].ex))
    => error = ExceedMaxRetryCountException

\* the responses C7 calls well formed: the body parses and every author of
\* an author search carries its "papers"
WellFormed ==
  /\ \A i \in FailedIdx : log[i].ex # JSONDecodeError
  /\ Succeeded => /\ response.json
                  /\ (op = "get_author_detail_by_name" =>
                        \A i \in 1..Len(response.data) : response.data[i].has_papers)

\* C7 as stated: for every max_retry_count >= 0 a call ends in DONE (a
\* result or a typed not-found error), FATAL (the HTTP error) or EXHAUSTED
\* (an exhaustion error) and in no other failure.
C7_Original ==
  (Terminal /\ calls > 0 /\ WellFormed) =>
    \/ error \in {NoError, NoPaperFoundException, NoAuthorFoundException} /\ Succeeded
    \/ IsFatal(error) /\ pc = "raised"
    \/ error \in ExhaustionErrors /\ pc = "raised"

(* ---------------------- claims about the resolver ---------------------- *)
Resolved == pc = "returned" /\ op = "get_paper_id_from_title"
\* the candidates whose score against the title exceeds the threshold
Above == {i \in 1..Len(response.data) : is_match_title(title, response.data[i].title, threshold)}
\* the candidates whose text is the title's
Exact == {i \in 1..Len(response.data) : response.data[i].title = title}
Least(S) == CHOOSE i \in S : \A j \in S : i <= j
HasToken(t) == Len(Tokenize(NormalizeMatch(t))) > 0

\* C8: the resolver returns the identifier of the first candidate, in the
\* order of the response, whose score strictly exceeds the threshold, and
\* scores no candidate after it; with no such candidate every candidate is
\* scored and the result is empty.
C8_FirstAboveThreshold ==
  Resolved =>
    IF Above = {}
    THEN result = "" /\ scored = Len(response.data)
    ELSE result = response.data[Least(Above)].paperId /\ scored = Least(Above)

C8_Witness ==
  /\ Resolved /\ result = "p1" /\ scored = 1
  /\ Len(response.data) = 2 /\ 2 \in Above
  /\ response.data[1].title # title /\ response.data[2].title = title

\* C9 as stated: at the default threshold a candidate list holding the
\* title's exact text resolves to the identifier of such a candidate,
\* whatever else the list holds.  Stated here for the titles that keep a
\* token after stop-word removal, where the score of the exact match is 1.
C9_Original ==
  (Resolved /\ threshold = DefaultThreshold /\ Exact # {} /\ HasToken(title))
    => \E i \in Exact : result = response.data[i].paperId

\* C9, amended: at the default threshold a candidate list holding the
\* title's exact text resolves to the first candidate, in the order of the
\* response, whose score exceeds the threshold.  That is the exact match or
\* a candidate standing before it that also exceeds the threshold, never a
\* candidate standing after it; it is the exact match when no earlier
\* candidate exceeds the threshold.  Only a title that keeps no token after
\* stop-word removal resolves to the empty result.
C9_ExactOrEarlier ==
  (Resolved /\ threshold = DefaultThreshold /\ Exact # {}) =>
    LET e == Least(Exact)
        data == response.data
    IN /\ result \in {data[j].paperId : j \in 1..e} \cup {""}
       /\ \A j \in 1..(e - 1) : result = data[j].paperId => j \in Above
       /\ (HasToken(title) /\ \A j \in 1..(e - 1) : j \notin Above) => result = data[e].paperId
       /\ result = "" <=> ~HasToken(title)

C9_Witness ==
  /\ Resolved /\ threshold = DefaultThreshold /\ HasToken(title)
  /\ Len(response.data) = 2 /\ Exact = {2}
  /\ result = "p1"

\* C10 as stated: a title scores the maximum, 1, against a candidate with
\* its own text, and resolving it against that single candidate returns the
\* candidate's identifier at every threshold in (0, 1].  Stated here for the
\* titles that keep a token after stop-word removal.
C10_Original ==
  (Resolved /\ Len(response.data) = 1 /\ Exact = {1} /\ HasToken(title)) =>
    LET score == RougeL(NormalizeMatch(title), NormalizeMatch(response.data[1].title))
    IN /\ score[1] = score[2]
       /\ result = response.data[1].paperId

\* C11: when the search response carries a candidate list (the empty list
\* included) and no candidate scores above the threshold, the resolver
\* returns the empty string and raises no error.
C11_NoMatchEmpty ==
  (op = "get_paper_id_from_title" /\ Succeeded /\ response.has_data /\ Above = {})
    => (pc = "returned" /\ result = "" /\ error = NoError)

C11_Witness ==
  /\ Resolved /\ result = "" /\ error = NoError
  /\ Len(response.data) = 2 /\ Above = {} /\ HasToken(title)

\* C12: a search that succeeds with a body that has no "data" field makes
\* get_paper_id_from_title raise NoPaperFoundException; no candidate is
\* scored and the empty string is not returned.
C12_NoDataRaises ==
  (op = "get_paper_id_from_title" /\ Succeeded /\ ~response.has_data)
    => (pc = "raised" /\ error = NoPaperFoundException /\ scored = 0)

C12_Witness ==
  /\ op = "get_paper_id_from_title" /\ Succeeded /\ response = NoData
  /\ pc = "raised" /\ error = NoPaperFoundException
  /\ FailedIdx # {}

AtMost(a, b) == ~GreaterThan(a, b)
Matched == op = "is_match_title" /\ pc = "returned"

\* C13: threshold monotonicity.  For a title and a candidate compared by
\* is_match_title at the instance's threshold: if the candidate is accepted
\* it is accepted at every threshold t1 <= threshold, and if it is rejected
\* it is rejected at every threshold t2 >= threshold.
C13_ThresholdMonotone ==
  Matched =>
    \A t \in ThresholdGrid :
      /\ (AtMost(t, threshold) /\ result = TRUE) => is_match_title(title, ref_title[1], t)
      /\ (AtMost(threshold, t) /\ result = FALSE) => ~is_match_title(title, ref_title[1], t)

\* a candidate rejected at 0.95 that the lower threshold 0.6 accepts
C13_Witness ==
  /\ Matched /\ threshold = DefaultThreshold /\ result = FALSE
  /\ HasToken(title)
  /\ is_match_title(title, ref_title[1], <<60, 100>>)

\* C14 as stated: normalising an already normalised title yields the same
\* string, so the candidate title normalised by get_paper_id_from_title
\* reaches the comparison of is_match_title unchanged.
C14_Original ==
  Len(ref_title) = 3 => ref_title[3] = ref_title[2]

(* ------------------------- the records returned ----------------------- *)
\* key of the JSON object, field of the record, declared default
AuthorTable ==
  {<<"authorId", "author_id", Str("")>>, <<"name", "author_name", Str("")>>,
   <<"url", "url", Str("")>>, <<"affiliations", "affiliations", List(<<>>)>>,
   <<"paperCount", "paper_count", Integer(0)>>,
   <<"citationCount", "citation_count", Integer(0)>>,
   <<"hIndex", "hindex", Integer(0)>>}
PaperTable ==
  {<<"paperId", "paper_id", Str("")>>, <<"title", "title", Str("")>>,
   <<"abstract", "abstract", Str("")>>, <<"venue", "venue", Str("")>>,
   <<"url", "url", Str("")>>,
   <<"publicationDate", "publication_date", Datetime("1900-01-01")>>,
   <<"referenceCount", "reference_count", Integer(0)>>,
   <<"citationCount", "citation_count", Integer(0)>>,
   <<"influentialCitationCount", "influential_citation_count", Integer(0)>>,
   <<"isOpenAccess", "is_open_access", Bool(FALSE)>>,
   <<"fieldsOfStudy", "fields_of_study", List(<<>>)>>}
\* the fields that hold lists of records
NestedKeys == {"authors", "citations", "references"}

DetailOps == {"get_paper_detail", "get_author_detail"}
\* a detail call whose response parsed as JSON
Parsed == op \in DetailOps /\ Succeeded /\ response.json
Has(obj, key) == key \in DOMAIN obj.v
\* the items of the list under key, none when the key is missing
Items(obj, key) ==
  IF Has(obj, key) /\ obj.v[key].kind = "list" THEN obj.v[key].v ELSE <<>>

\* a value of the JSON kind of the default (a date arrives as a date text)
TypedAs(x, default) ==
  IF default.kind = "datetime" THEN x.kind = "str" /\ x.v \in DateTexts
  ELSE x.kind = default.kind
\* every key present holds a value of its kind, nested lists hold objects
WellTyped(obj, table) ==
  \A e \in table : Has(obj, e[1]) => TypedAs(obj.v[e[1]], e[3])
ListOf(obj, key, P(_)) ==
  Has(obj, key) => /\ obj.v[key].kind = "list"
                   /\ \A i \in 1..Len(obj.v[key].v) : P(obj.v[key].v[i])
WellFormedAuthor(a) == a.kind = "dict" /\ WellTyped(a, AuthorTable)
WellFormedEntry(e) ==
  /\ e.kind = "dict" /\ WellTyped(e, PaperTable)
  /\ ListOf(e, "authors", WellFormedAuthor)
WellFormedPaper(p) ==
  /\ WellTyped(p, PaperTable)
  /\ ListOf(p, "authors", WellFormedAuthor)
  /\ ListOf(p, "citations", WellFormedEntry)
  /\ ListOf(p, "references", WellFormedEntry)

\* every key missing from the object left the declared default in the record
MissingDefaults(obj, rec, table) ==
  \A e \in table : ~Has(obj, e[1]) => rec[e[2]] = e[3]
\* the same for the records built from the objects of a nested list
NestedDefaults(obj, recs, key, table) ==
  /\ (~Has(obj, key) => recs = <<>>)
  /\ \A i \in 1..Len(Items(obj, key)) :
       Items(obj, key)[i].kind = "dict" => MissingDefaults(Items(obj, key)[i], recs[i], table)
EntryDefaults(obj, recs, key) ==
  /\ NestedDefaults(obj, recs, key, PaperTable)
  /\ \A i \in 1..Len(Items(obj, key)) :
       Items(obj, key)[i].kind = "dict" =>
         NestedDefaults(Items(obj, key)[i], recs[i].authors, "authors", AuthorTable)

\* C15: record defaulting.  A detail call whose JSON object, and the objects
\* nested in it, hold values of the declared kinds under the keys they have
\* returns a record and raises nothing; in every record returned, a key
\* missing from the object (of the paper, of a nested author, of an entry
\* of citations or references) leaves the declared default in the field,
\* and an author with empty or null affiliations has the empty list.
C15_RecordDefaults ==
  Parsed =>
    LET content == Content(response)
    IN IF op = "get_author_detail"
       THEN /\ (WellFormedAuthor(content) => pc = "returned")
            /\ (pc = "returned" =>
                  /\ MissingDefaults(content, result, AuthorTable)
                  /\ ((Has(content, "affiliations")
                        /\ content.v["affiliations"] \in {List(<<>>), None})
                       => result.affiliations = List(<<>>)))
       ELSE /\ (WellFormedPaper(content) => pc = "returned")
            /\ (pc = "returned" =>
                  /\ MissingDefaults(content, result, PaperTable)
                  /\ NestedDefaults(content, result.authors, "authors", AuthorTable)
                  /\ EntryDefaults(content, result.citations, "citations")
                  /\ EntryDefaults(content, result.references, "references"))

\* a paper with no key but "citations", whose one entry lacks its date
C15_Witness ==
  /\ Parsed /\ op = "get_paper_detail" /\ pc = "returned"
  /\ Content(response) =
       Dict(Put(EmptyObj, "citations", List(<<Dict(Drop(FullEntry, "publicationDate"))>>)))
  /\ result.title = Str("") /\ result.references = <<>>
  /\ result.citations[1].publication_date = DefaultDate
  /\ result.citations[1].paper_id = Str("p2")

\* the kinds of the contract: string, number, boolean, list, mapping, date
\* and null; a date arrives in JSON as a date text
JsonKind(x) ==
  CASE x.kind = "str" -> "string"
    [] x.kind \in {"int", "float"} -> "number"
    [] x.kind = "bool" -> "boolean"
    [] x.kind = "list" -> "list"
    [] x.kind = "dict" -> "mapping"
    [] x.kind = "datetime" -> "date"
    [] OTHER -> "null"
SameKind(x, default) ==
  IF default.kind = "datetime" THEN x.kind = "str" /\ x.v \in DateTexts
  ELSE JsonKind(x) = JsonKind(default)
\* the value a field holds when x is copied into it
Copied(x, default) == IF default.kind = "datetime" THEN Datetime(x.v) ELSE x
Table(o) == IF o = "get_author_detail" THEN AuthorTable ELSE PaperTable

\* C16 as stated: for every field of the record and every value under its
\* key, the value is copied if it is of the kind of the default, the field
\* keeps its default otherwise, and no error is raised.
C16_Original ==
  Parsed =>
    /\ pc = "returned"
    /\ \A e \in Table(op) :
         Has(Content(response), e[1]) =>
           LET x == Content(response).v[e[1]]
           IN result[e[2]] = IF SameKind(x, e[3]) THEN Copied(x, e[3]) ELSE e[3]

\* C17: in every Paper returned by get_paper_detail each entry of citations
\* and of references has empty citations and empty references, whatever the
\* JSON entries carry under those keys.
C17_NestedCapped ==
  (Parsed /\ op = "get_paper_detail" /\ pc = "returned") =>
    /\ \A i \in 1..Len(result.citations) :
         result.citations[i].citations = <<>> /\ result.citations[i].references = <<>>
    /\ \A i \in 1..Len(result.references) :
         result.references[i].citations = <<>> /\ result.references[i].references = <<>>

\* the entries of the response carry citations and references of their own
C17_Witness ==
  /\ Parsed /\ op = "get_paper_detail" /\ pc = "returned"
  /\ Content(response) = Dict(FullPaper)
  /\ Len(Items(Items(Content(response), "citations")[1], "citations")) = 1
  /\ Len(Items(Items(Content(response), "references")[1], "references")) = 1
  /\ Len(result.citations) = 1 /\ Len(result.references) = 1
  /\ result.citations[1].paper_id = Str("p2")
  /\ result.citations[1].citations = <<>>

\* the attempts of the call that succeeded and its inter-request pauses
OkIdx == {i \in AttemptIdx : log[i].ex = NoError}
PauseIdx == WaitIdx({"pause"})

\* C18: every successful attempt is followed at once by one pause of
\* `sleep` seconds and a pause follows nothing else; a call has at most one
\* pause, a call that returns has exactly one, as the last thing it does,
\* whether or not failures came before; the pause adds `sleep` seconds to
\* the seconds of the backoff waits.
C18_PauseAfterSuccess ==
  /\ \A i \in OkIdx : i < Len(log) /\ log[i + 1].ev = "pause"
  /\ \A j \in PauseIdx : j > 1 /\ (j - 1) \in OkIdx
  /\ Cardinality(PauseIdx) <= 1
  /\ pc = "returned" => (Cardinality(PauseIdx) = 1 /\ log[Len(log)].ev = "pause")
  /\ slept = LongWait * Cardinality(WaitIdx(LongWaits))
              + sleep * Cardinality(WaitIdx({"wait_short"}))
              + sleep * Cardinality(PauseIdx)

\* a success after a rate-limit failure and a transient one
C18_Witness ==
  /\ pc = "returned" /\ sleep = 1
  /\ Cardinality(WaitIdx(LongWaits)) = 1 /\ Cardinality(WaitIdx({"wait_short"})) = 1
  /\ Cardinality(PauseIdx) = 1 /\ slept = LongWait + 2

\* C19: retry counters are per call.  No step changes threshold or
\* max_retry_count; the step that starts a call, whatever the earlier calls
\* did, sets the counter to 0 with no attempt made; within a call the
\* counter only grows, by one per failed attempt; and a call ends by
\* exhaustion only when max_retry_count of its own attempts have failed.
C19_PerCallCounters ==
  [][/\ config' = config
     /\ (calls' # calls =>
           /\ calls' = calls + 1 /\ pc \in {"idle", "returned", "raised"}
           /\ retry' = 0 /\ log' = <<>> /\ slept' = 0
           /\ (max_retry_count > 0 => pc' = "loop"))
     /\ (calls' = calls => retry' \in {retry, retry + 1})
     /\ (retry = Cardinality(FailedIdx))'
     /\ ((pc = "raised" /\ error \in ExhaustionErrors)'
           => (Cardinality(FailedIdx) = max_retry_count)')]_vars

\* a second call that used its whole budget
C19_Witness ==
  /\ calls = 2 /\ pc = "raised" /\ error \in ExhaustionErrors
  /\ max_retry_count >= 2 /\ retry = max_retry_count
  /\ Cardinality(FailedIdx) = max_retry_count

\* the authors of the search response that have the paper of the filter
WithPaper == {i \in 1..Len(response.data) : paper_id \in response.data[i].papers}

\* C20 as stated: get_author_detail_by_name raises NoAuthorFoundException
\* when the search returns no author and when a paper_id filter is given and
\* no returned author has that paper; with a filter it returns only an
\* author that has the paper.
C20_Original ==
  (op = "get_author_detail_by_name" /\ Succeeded /\ response.json /\ response.has_data)
    => /\ (Len(response.data) = 0 \/ (paper_id # "" /\ WithPaper = {}))
            => (pc = "raised" /\ error = NoAuthorFoundException)
       /\ (pc = "returned" /\ paper_id # "")
            => \E i \in WithPaper : result = response.data[i].authorId

\* what a failed attempt does besides writing output
Behaviour(rw) == [raised |-> rw.raised, retry |-> rw.retry, waits |-> rw.waits,
                  secs |-> rw.secs]

\* the wait policy of an exception kind: the waits and the seconds slept,
\* or the exception raised at once
Policy(ex, slp) ==
  IF IsErrno3(ex) THEN [raised |-> FALSE, waits |-> <<"wait_errno3">>, secs |-> LongWait]
  ELSE IF IsRateLimit(ex) THEN [raised |-> FALSE, waits |-> <<"wait_429">>, secs |-> LongWait]
  ELSE IF IsFatal(ex) THEN [raised |-> TRUE, waits |-> <<>>, secs |-> 0]
  ELSE [raised |-> FALSE, waits |-> <<"wait_short">>, secs |-> slp]

\* the state a call is left in by a failed attempt, from the policy of the
\* exception, the number of failures so far, the budget and the operation
AfterFailure(ex, slp, failures, max, o) ==
  LET p == Policy(ex, slp)
  IN IF p.raised THEN [pc |-> "raised", error |-> ex]
     ELSE IF max <= failures THEN [pc |-> "raised", error |-> ExhaustionError(o)]
     ELSE [pc |-> "loop", error |-> NoError]

\* C21: the behaviour of a call is determined by the exception kinds of its
\* attempts and by max_retry_count and sleep alone.  A failed attempt is
\* followed by the waits of the policy of its exception kind, whatever the
\* retry count, the number of earlier calls, the silent flag and the logger;
\* the call is left in the state that the policy, the number of failures and
\* the budget give; and under any other setting of silent and logger the
\* same failure leads to the same waits and the same outcome.
C21_Deterministic ==
  [][(calls' = calls /\ Len(log') > Len(log) /\ log'[Len(log) + 1].ex # NoError)
       => LET ex == log'[Len(log) + 1].ex
              p == Policy(ex, sleep)
              after == AfterFailure(ex, sleep, Cardinality(FailedIdx)',
                                    max_retry_count, op)
          IN /\ log' = log \o <<Event("attempt", ex)>> \o Events(p.waits)
             /\ slept' = slept + p.secs
             /\ pc' = after.pc
             /\ error' = after.error
             /\ \A sil \in BOOLEAN, lgr \in BOOLEAN :
                  Behaviour(retry_and_wait(ex, retry, sleep, max_retry_count,
                                           sil, lgr))
                    = Behaviour(retry_and_wait(ex, retry, sleep, max_retry_count,
                                               silent, logger))]_vars

\* a silent instance whose second call waited for a rate limit after an
\* earlier failure of the call, and wrote nothing
C21_Witness ==
  /\ silent /\ logger /\ calls = 2 /\ retry >= 2
  /\ WaitIdx({"wait_429"}) # {} /\ WaitIdx({"wait_short"}) # {}
  /\ output = <<>>

\* C22 as stated: a backoff wait is always followed by another attempt; a
\* failure that leaves no budget raises instead of sleeping, so a call that
\* ends by exhaustion under max_retry_count = N has made N attempts and at
\* most N - 1 backoff waits.
C22_Original ==
  Terminal =>
    /\ \A i \in WaitIdx(BackoffWaits) :
         i < Len(log) /\ log[i + 1].ev = "attempt"
    /\ (pc = "raised" /\ error \in ExhaustionErrors)
         => /\ Cardinality(AttemptIdx) = max_retry_count
            /\ Cardinality(WaitIdx(BackoffWaits)) <= max_retry_count - 1

\* the attempts whose response body was not JSON, parsed inside the loop
MalformedIdx == {i \in AttemptIdx : log[i].ex = JSONDecodeError}

\* C23 as stated: in every fetch operation a response body that is not JSON
\* leaves the call at once with the parse error: the retry loop does not
\* absorb it, it does not count against the retry budget and it does not
\* end as an exhaustion or a not-found error.
C23_Original ==
  /\ \A i \in MalformedIdx :
       /\ i = Len(log)
       /\ pc = "raised" /\ error = JSONDecodeError
       /\ retry = Cardinality(FailedIdx \ MalformedIdx)
  /\ (Succeeded /\ ~response.json) => (pc = "raised" /\ error = JSONDecodeError)

\* the longest wait of one failure: a long wait or the caller's sleep
LongestWait == Max(LongWait, sleep)

\* attempts, backoff waits and seconds of a call within the budget
Bounded ==
  /\ Cardinality(AttemptIdx) <= max_retry_count
  /\ Cardinality(WaitIdx(BackoffWaits)) <= max_retry_count
  /\ slept <= max_retry_count * LongestWait + sleep

\* C24: every call terminates.  Under any max_retry_count = N and any
\* outcomes of the attempts a call that entered its loop reaches a terminal
\* state, having made at most N attempts and at most N backoff waits and
\* having slept at most N times the longest wait plus one pause.
C24_Terminates == []Bounded /\ ((pc = "loop") ~> Terminal)

\* a call that failed at every attempt and waited the long wait each time
C24_Witness ==
  /\ pc = "raised" /\ error \in ExhaustionErrors /\ max_retry_count >= 2
  /\ Cardinality(AttemptIdx) = max_retry_count
  /\ Cardinality(WaitIdx(LongWaits)) = max_retry_count
  /\ slept = max_retry_count * LongWait

\* the seconds __retry_and_wait sleeps on ex in the current state of a call
Delay(ex) ==
  retry_and_wait(ex, retry, sleep, max_retry_count, silent, logger).secs

\* C25 as stated: the wait policies are strictly ordered by duration: the
\* short transient delay is shorter than the delay of a 429, and the delay
\* of the errno -3 failure is strictly longer than the delay of a 429.
C25_Original ==
  pc = "loop" =>
    /\ \A ex \in NetworkErrors :
         IsRetryable(ex) /\ ~IsRateLimit(ex) /\ ~IsErrno3(ex)
           => Delay(ex) < Delay(Exc("HTTPError", 0, 429))
    /\ \A ex \in HTTPErrors :
         IsErrno3(ex) => Delay(ex) > Delay(Exc("HTTPError", 0, 429))

\* the first test of __retry_and_wait, max_retry_count < retry, is true
BudgetBranch(ex) == max_retry_count < retry + 1

\* the counter in a state of a call
CounterExact ==
  /\ retry = Cardinality(FailedIdx)
  /\ 0 <= retry /\ retry <= max_retry_count
  /\ pc = "loop" => \A ex \in NetworkErrors \cup {JSONDecodeError} : ~BudgetBranch(ex)
  /\ (pc = "raised" /\ error \in NetworkErrors) => IsFatal(error)

\* C26: in every state of a call the retry counter is the number of failed
\* attempts of the call so far and lies in 0..max_retry_count; within a call
\* it grows by exactly 1 with each failed attempt and never decreases.  So
\* the test max_retry_count < retry of __retry_and_wait is never true in a
\* call of a public operation, and a call never ends with the exception of
\* a retryable failure.
C26_CounterExact ==
  /\ []CounterExact
  /\ [][calls' = calls =>
          /\ retry' \in {retry, retry + 1}
          /\ retry' = retry + 1
               <=> Cardinality(FailedIdx)' = Cardinality(FailedIdx) + 1]_vars

\* a call of get_author_detail that spent a budget of two or more on
\* retryable failures, the last of them a timeout
C26_Witness ==
  /\ op = "get_author_detail" /\ pc = "raised" /\ error = GenericException
  /\ retry = max_retry_count /\ retry >= 2
  /\ log[Len(log) - 1] = Event("attempt", Exc("timeout", 0, 0))

====
